---------------------------- MODULE Spec2Model ----------------------------
(***************************************************************************)
(* A model of nixnet's frame types (nixnet/types.py), of the session frame *)
(* collections (nixnet/_session/frames.py) and of the collection base      *)
(* class (nixnet/_session/collection.py).                                  *)
(*                                                                         *)
(* The specifications share the variables below; each one moves only its   *)
(* own group of variables and leaves the others at their initial values:   *)
(*   SpecIdent   CanIdentifier construction and conversion                 *)
(*   SpecFrame   typed frames decoded from raw records                     *)
(*   SpecTyped   typed frames converted with to_raw and decoded again      *)
(*   SpecCodec   OutFrames.write_raw / InFrames.read_raw, read_can         *)
(*   SpecColl    Collection lookups over the cached name list              *)
(*   SpecUse     every Collection operation, and the driver calls made     *)
(*   SpecIter    generators of Collection.__iter__                         *)
(*   SpecEq      Collection.__eq__ / __ne__ between two collections        *)
(***************************************************************************)
EXTENDS Integers, Sequences, FiniteSets, TLC

VARIABLES
    \* ---- CanIdentifier (SpecIdent)
    idArgs,     \* the arguments of the last CanIdentifier(...) call, or None
    canId,      \* the CanIdentifier object at hand, or None
    rawId,      \* the raw frame identifier at hand (a Python int), or None
    parsed,     \* the CanIdentifier parsed back from rawId, or None
    idOp,       \* the last CanIdentifier operation
    idExc,      \* the exception the last operation raised, or "none"
    \* ---- typed frames (SpecFrame)
    typedFrame, \* the typed frame that to_raw is called on, or None
    rawFrame,   \* the RawFrame handed to the last from_raw, or None
    frameOp,    \* the last frame operation
    frameRet,   \* what it returned: a typed frame, or the exception raised
    \* ---- session read / write (SpecCodec)
    written,    \* the raw frames handed to write_raw
    txCalls,    \* the byte strings handed to the driver, one per nx_write_frame
    rxBytes,    \* the bytes the last read_bytes returned
    readFrames, \* the raw frames read_raw yielded from rxBytes
    readTyped,  \* what read_can made of each of them
    codecOp,    \* the last session operation
    \* ---- collection (SpecColl)
    collClass,  \* the collection's class: Frames, InFrames or OutFrames
    handle,     \* Collection._handle: the session handle it is bound to
    driverList, \* the driver's item names for that handle, as they are now
    driverEdits,\* how many times the driver's list has changed
    listCache,  \* Collection.__list_cache: None, or List(the cached names)
    listCalls,  \* what each _props.get_session_list call of the collection returned
    otherColl,  \* a second collection: its class, handle, cache and calls; or None
    iters,      \* the generators collection.__iter__ returned, in creation order
    collKey,    \* the key of the last collection operation
    collDefault,\* the default handed to the last get, or None
    collOp,     \* the last collection operation
    collRet     \* what it returned: a value, an item, or the exception raised

identVars == <<idArgs, canId, rawId, parsed, idOp, idExc>>
frameVars == <<typedFrame, rawFrame, frameOp, frameRet>>
codecVars == <<written, txCalls, rxBytes, readFrames, readTyped, codecOp>>
collVars  ==
    <<collClass, handle, driverList, driverEdits, listCache, listCalls, otherColl,
      iters, collKey, collDefault, collOp, collRet>>
vars      == <<identVars, frameVars, codecVars, collVars>>

\* What the operations of one group leave alone.
notIdent == <<frameVars, codecVars, collVars>>
notFrame == <<identVars, codecVars, collVars>>
notCodec == <<identVars, frameVars, collVars>>
notColl  == <<identVars, frameVars, codecVars>>

\* Python's None (a record, so that TLC can compare it with any object).
None == [none |-> TRUE]

(***************************************************************************)
(* Python integers.  TLC's integers are 32-bit and signed, and a raw frame *)
(* identifier is an unsigned 32-bit value, so a Python int n is held as    *)
(* the pair <<hi, lo>> with n = hi * 2^16 + lo and lo in 0 .. 2^16 - 1     *)
(* (hi is any integer: negative for a negative n, 2^16 or more for an n    *)
(* of more than 32 bits).                                                  *)
(***************************************************************************)
Limb == 2 ^ 16

PyInt(hi, lo) == <<hi + (lo \div Limb), lo % Limb>>

PyAdd(x, d) == PyInt(x[1], x[2] + d)

PyLe(x, y) == x[1] < y[1] \/ (x[1] = y[1] /\ x[2] <= y[2])

RECURSIVE BitAnd16(_, _)
BitAnd16(a, b) ==
    IF a = 0 \/ b = 0 THEN 0
    ELSE ((a % 2) * (b % 2)) + 2 * BitAnd16(a \div 2, b \div 2)

RECURSIVE BitOr16(_, _)
BitOr16(a, b) ==
    IF a = 0 THEN b
    ELSE IF b = 0 THEN a
    ELSE (IF a % 2 = 1 \/ b % 2 = 1 THEN 1 ELSE 0)
         + 2 * BitOr16(a \div 2, b \div 2)

\* Python's x & m and x | m for a mask m with 0 <= m < 2^32 (two's
\* complement on the unbounded x: only the low 32 bits of x meet m).
PyAnd(x, m) == <<BitAnd16(x[1] % Limb, m[1]), BitAnd16(x[2], m[2])>>

PyOr(x, m) ==
    <<(x[1] - (x[1] % Limb)) + BitOr16(x[1] % Limb, m[1]), BitOr16(x[2], m[2])>>

PyZero == <<0, 0>>

(***************************************************************************)
(* CanIdentifier                                                           *)
(***************************************************************************)
_FRAME_ID_MASK == <<0, \H03FF>>                 \* 0x000003FF

_EXTENDED_FRAME_ID_MASK == <<\H1FFF, \HFFFF>>   \* 0x1FFFFFFF

NX_FRAME_ID_CAN_IS_EXTENDED == <<\H2000, 0>>    \* 0x20000000

NX_ERR_UNDEFINED_FRAME_ID == "NX_ERR_UNDEFINED_FRAME_ID"

\* _errors.check_for_error(status) for an error status: raises XnetError
\* carrying the status, here named by the status itself.
check_for_error(status) == status

\* A constructor that masks the identifier to its width.
CanIdentifier_Masked(identifier, extended) ==
    [identifier |-> PyAnd(identifier, IF extended THEN _EXTENDED_FRAME_ID_MASK
                                                   ELSE _FRAME_ID_MASK),
     extended |-> extended]

CanIdentifier(identifier, extended) ==
    [identifier |-> identifier, extended |-> extended]

\* from_raw with the 29-bit mask applied to standard identifiers too.
CanIdentifier_from_raw_OneMask(raw) ==
    LET extended == PyAnd(raw, NX_FRAME_ID_CAN_IS_EXTENDED) # PyZero
    IN  CanIdentifier(PyAnd(raw, _EXTENDED_FRAME_ID_MASK), extended)

CanIdentifier_from_raw(raw) ==
    LET extended == PyAnd(raw, NX_FRAME_ID_CAN_IS_EXTENDED) # PyZero
        identifier == IF extended
                      THEN PyAnd(raw, _EXTENDED_FRAME_ID_MASK)
                      ELSE PyAnd(raw, _FRAME_ID_MASK)
    IN  CanIdentifier(identifier, extended)

\* __int__ that forgets to set the is-extended bit.
CanIdentifier_int_NoExtendedBit(self) ==
    LET identifier == self.identifier
        mask == IF self.extended THEN _EXTENDED_FRAME_ID_MASK ELSE _FRAME_ID_MASK
    IN  IF identifier # PyAnd(identifier, mask)
        THEN [exc |-> check_for_error(NX_ERR_UNDEFINED_FRAME_ID), value |-> None]
        ELSE [exc |-> "none", value |-> identifier]

\* __int__ that masks the identifier instead of checking it.
CanIdentifier_int_Masking(self) ==
    IF self.extended
    THEN [exc |-> "none",
          value |-> PyOr(PyAnd(self.identifier, _EXTENDED_FRAME_ID_MASK),
                         NX_FRAME_ID_CAN_IS_EXTENDED)]
    ELSE [exc |-> "none", value |-> PyAnd(self.identifier, _FRAME_ID_MASK)]

\* __int__: [exc |-> "none", value |-> the raw identifier], or the
\* exception raised and no value.
CanIdentifier_int(self) ==
    LET identifier == self.identifier
    IN  IF self.extended
        THEN IF identifier # PyAnd(identifier, _EXTENDED_FRAME_ID_MASK)
             THEN [exc |-> check_for_error(NX_ERR_UNDEFINED_FRAME_ID), value |-> None]
             ELSE [exc |-> "none",
                   value |-> PyOr(identifier, NX_FRAME_ID_CAN_IS_EXTENDED)]
        ELSE IF identifier # PyAnd(identifier, _FRAME_ID_MASK)
             THEN [exc |-> check_for_error(NX_ERR_UNDEFINED_FRAME_ID), value |-> None]
             ELSE [exc |-> "none", value |-> identifier]

CanIdentifier_eq(self, other) ==
    /\ self.identifier = other.identifier
    /\ self.extended = other.extended


(***************************************************************************)
(* Frames                                                                  *)
(***************************************************************************)
\* The frame types XnetFrame.from_raw has a decoder for.
CanFrameTypes ==
    {"CAN_DATA", "CAN20_DATA", "CANFD_DATA", "CANFDBRS_DATA", "CAN_REMOTE"}

SupportedFrameTypes ==
    CanFrameTypes \cup
    {"CAN_BUS_ERROR", "SPECIAL_DELAY", "SPECIAL_LOG_TRIGGER", "SPECIAL_START_TRIGGER"}

\* The members of constants.FrameType it has none for.
OtherFrameTypes ==
    {"FLEXRAY_DATA", "FLEXRAY_NULL", "LIN_DATA", "LIN_BUS_ERROR",
     "LIN_NO_RESPONSE", "J1939_DATA"}

FrameType == SupportedFrameTypes \cup OtherFrameTypes

\* constants.CanCommState and constants.CanLastErr, by value.
CanCommState == 0 .. 3

CanLastErr == 0 .. 6

NX_FRAME_FLAGS_TRANSMIT_ECHO == 128

RawFrame(timestamp, identifier, type, flags, info, payload) ==
    [timestamp |-> timestamp, identifier |-> identifier, type |-> type,
     flags |-> flags, info |-> info, payload |-> payload]

\* What a call returns: a value, or the exception it raised.
Return(value) == [exc |-> "none", value |-> value]

Raise(exc) == [exc |-> exc, value |-> None]

\* CanFrame(identifier, type, payload) for a CanIdentifier.
CanFrame(identifier, type, payload) ==
    [class |-> "CanFrame", identifier |-> identifier, echo |-> FALSE,
     type |-> type, timestamp |-> 0, payload |-> payload]

\* An identifier argument of CanFrame(...): a Python int, or a CanIdentifier.
IntArg(i) == [type |-> "int", int |-> i]

ObjArg(object) == [type |-> "CanIdentifier", object |-> object]

\* CanFrame.__init__ as callers use it: an int identifier is wrapped in a
\* standard CanIdentifier.
CanFrame_init(identifier, type, payload) ==
    CanFrame(IF identifier.type = "int"
             THEN CanIdentifier(identifier.int, FALSE)
             ELSE identifier.object,
             type, payload)

\* from_raw that takes any flag for the transmit echo.
CanFrame_from_raw_AnyFlag(frame) ==
    LET identifier == CanIdentifier_from_raw(frame.identifier)
        can_frame == CanFrame(identifier, frame.type, frame.payload)
    IN  Return([can_frame EXCEPT
                  !.timestamp = frame.timestamp,
                  !.echo = frame.flags # 0])

CanFrame_from_raw(frame) ==
    LET identifier == CanIdentifier_from_raw(frame.identifier)
        can_frame == CanFrame(identifier, frame.type, frame.payload)
    IN  Return([can_frame EXCEPT
                  !.timestamp = frame.timestamp,
                  !.echo = BitAnd16(frame.flags, NX_FRAME_FLAGS_TRANSMIT_ECHO) # 0])

CanBusErrorFrame(timestamp, state, tcvr_err, bus_err, tx_err_count, rx_err_count) ==
    [class |-> "CanBusErrorFrame", timestamp |-> timestamp, state |-> state,
     tcvr_err |-> tcvr_err, bus_err |-> bus_err,
     tx_err_count |-> tx_err_count, rx_err_count |-> rx_err_count]

\* six.indexbytes(buf, i), where it is defined (i < len(buf)).
indexbytes(buf, i) == buf[i + 1]

\* from_raw that takes the last error from payload byte 2.
CanBusErrorFrame_from_raw_Byte2(frame) ==
    LET payload == frame.payload
    IN  IF Len(payload) < 1 THEN Raise("IndexError")
        ELSE IF indexbytes(payload, 0) \notin CanCommState THEN Raise("ValueError")
        ELSE IF Len(payload) < 3 THEN Raise("IndexError")
        ELSE IF indexbytes(payload, 2) \notin CanLastErr THEN Raise("ValueError")
        ELSE IF Len(payload) < 5 THEN Raise("IndexError")
        ELSE Return(CanBusErrorFrame(frame.timestamp,
                                     indexbytes(payload, 0),
                                     indexbytes(payload, 1) # 0,
                                     indexbytes(payload, 2),
                                     indexbytes(payload, 3),
                                     indexbytes(payload, 4)))

\* from_raw that reads a byte beyond the payload as 0.
CanBusErrorFrame_from_raw_Padded(frame) ==
    LET payload == [i \in 1 .. 5 |-> IF i <= Len(frame.payload)
                                     THEN frame.payload[i] ELSE 0]
    IN  IF indexbytes(payload, 0) \notin CanCommState THEN Raise("ValueError")
        ELSE IF indexbytes(payload, 1) \notin CanLastErr THEN Raise("ValueError")
        ELSE Return(CanBusErrorFrame(frame.timestamp,
                                     indexbytes(payload, 0),
                                     indexbytes(payload, 1) # 0,
                                     indexbytes(payload, 1),
                                     indexbytes(payload, 3),
                                     indexbytes(payload, 4)))

\* The statements of from_raw in order, each raising what Python raises:
\* IndexError for a byte beyond the payload, ValueError for a byte that is
\* no value of the enumeration.
CanBusErrorFrame_from_raw(frame) ==
    LET payload == frame.payload
    IN  IF Len(payload) < 1 THEN Raise("IndexError")
        ELSE IF indexbytes(payload, 0) \notin CanCommState THEN Raise("ValueError")
        ELSE IF Len(payload) < 2 THEN Raise("IndexError")
        ELSE IF indexbytes(payload, 1) \notin CanLastErr THEN Raise("ValueError")
        ELSE IF Len(payload) < 4 THEN Raise("IndexError")
        ELSE IF Len(payload) < 5 THEN Raise("IndexError")
        ELSE Return(CanBusErrorFrame(frame.timestamp,
                                     indexbytes(payload, 0),
                                     indexbytes(payload, 1) # 0,
                                     indexbytes(payload, 1),
                                     indexbytes(payload, 3),
                                     indexbytes(payload, 4)))

\* CanBusErrorFrame.to_raw: bytes(payload_data) of the five fields, which
\* raises ValueError for an element that is no byte.
CanBusErrorFrame_to_raw(self) ==
    LET payload_data == <<self.state,
                          IF self.tcvr_err THEN 1 ELSE 0,
                          self.bus_err,
                          self.tx_err_count,
                          self.rx_err_count>>
    IN  IF \E i \in 1 .. 5 : payload_data[i] \notin 0 .. 255
        THEN Raise("ValueError")
        ELSE Return(RawFrame(self.timestamp, PyZero, "CAN_BUS_ERROR", 0, 0,
                             payload_data))

\* CanBusErrorFrame.__eq__
CanBusErrorFrame_eq(self, other) ==
    /\ other.class = "CanBusErrorFrame"
    /\ self.timestamp = other.timestamp
    /\ self.state = other.state
    /\ self.tcvr_err = other.tcvr_err
    /\ self.bus_err = other.bus_err
    /\ self.tx_err_count = other.tx_err_count
    /\ self.rx_err_count = other.rx_err_count

\* CanFrame.to_raw: int(self.identifier) may raise.
CanFrame_to_raw(self) ==
    LET identifier == CanIdentifier_int(self.identifier)
        flags == IF self.echo
                 THEN BitOr16(0, NX_FRAME_FLAGS_TRANSMIT_ECHO)
                 ELSE 0
    IN  IF identifier.exc # "none" THEN Raise(identifier.exc)
        ELSE Return(RawFrame(self.timestamp, identifier.value, self.type,
                             flags, 0, self.payload))

\* CanFrame.__eq__
CanFrame_eq(self, other) ==
    /\ other.class = "CanFrame"
    /\ CanIdentifier_eq(self.identifier, other.identifier)
    /\ self.echo = other.echo
    /\ self.type = other.type
    /\ self.timestamp = other.timestamp
    /\ self.payload = other.payload

DelayFrame(offset) == [class |-> "DelayFrame", offset |-> offset]

DelayFrame_from_raw(frame) == Return(DelayFrame(frame.timestamp))

LogTriggerFrame(timestamp) == [class |-> "LogTriggerFrame", timestamp |-> timestamp]

LogTriggerFrame_from_raw(frame) == Return(LogTriggerFrame(frame.timestamp))

StartTriggerFrame(timestamp) ==
    [class |-> "StartTriggerFrame", timestamp |-> timestamp]

StartTriggerFrame_from_raw(frame) == Return(StartTriggerFrame(frame.timestamp))

\* DelayFrame.to_raw
DelayFrame_to_raw(self) ==
    Return(RawFrame(self.offset, PyZero, "SPECIAL_DELAY", 0, 0, <<>>))

\* DelayFrame.__eq__; NotImplemented from both operands makes == False.
DelayFrame_eq(self, other) ==
    other.class = "DelayFrame" /\ self.offset = other.offset

\* LogTriggerFrame.to_raw with the type of the start trigger.
LogTriggerFrame_to_raw_StartType(self) ==
    Return(RawFrame(self.timestamp, PyZero, "SPECIAL_START_TRIGGER", 0, 0, <<>>))

\* LogTriggerFrame.to_raw
LogTriggerFrame_to_raw(self) ==
    Return(RawFrame(self.timestamp, PyZero, "SPECIAL_LOG_TRIGGER", 0, 0, <<>>))

LogTriggerFrame_eq(self, other) ==
    other.class = "LogTriggerFrame" /\ self.timestamp = other.timestamp

\* StartTriggerFrame.to_raw
StartTriggerFrame_to_raw(self) ==
    Return(RawFrame(self.timestamp, PyZero, "SPECIAL_START_TRIGGER", 0, 0, <<>>))

StartTriggerFrame_eq(self, other) ==
    other.class = "StartTriggerFrame" /\ self.timestamp = other.timestamp

\* frame.to_raw() for a frame of one of these classes.
to_raw(frame) ==
    CASE frame.class = "CanFrame" -> CanFrame_to_raw(frame)
      [] frame.class = "CanBusErrorFrame" -> CanBusErrorFrame_to_raw(frame)
      [] frame.class = "DelayFrame" -> DelayFrame_to_raw(frame)
      [] frame.class = "LogTriggerFrame" -> LogTriggerFrame_to_raw(frame)
      [] frame.class = "StartTriggerFrame" -> StartTriggerFrame_to_raw(frame)

\* self == other for a frame of one of these classes.
Frame_eq(self, other) ==
    CASE self.class = "CanFrame" -> CanFrame_eq(self, other)
      [] self.class = "CanBusErrorFrame" -> CanBusErrorFrame_eq(self, other)
      [] self.class = "DelayFrame" -> DelayFrame_eq(self, other)
      [] self.class = "LogTriggerFrame" -> LogTriggerFrame_eq(self, other)
      [] self.class = "StartTriggerFrame" -> StartTriggerFrame_eq(self, other)

\* A dispatch table that falls back to CanFrame for a type it does not list.
frame_type_Fallback(type) ==
    IF type = "CAN_BUS_ERROR" THEN "CanBusErrorFrame"
    ELSE IF type = "SPECIAL_DELAY" THEN "DelayFrame"
    ELSE IF type = "SPECIAL_LOG_TRIGGER" THEN "LogTriggerFrame"
    ELSE IF type = "SPECIAL_START_TRIGGER" THEN "StartTriggerFrame"
    ELSE "CanFrame"

\* The dispatch table of XnetFrame.from_raw: the class for a type, or
\* "none" (the None that dict.get returns).
frame_type(type) ==
    CASE type = "CAN_DATA" -> "CanFrame"
      [] type = "CAN20_DATA" -> "CanFrame"
      [] type = "CANFD_DATA" -> "CanFrame"
      [] type = "CANFDBRS_DATA" -> "CanFrame"
      [] type = "CAN_REMOTE" -> "CanFrame"
      [] type = "CAN_BUS_ERROR" -> "CanBusErrorFrame"
      [] type = "SPECIAL_DELAY" -> "DelayFrame"
      [] type = "SPECIAL_LOG_TRIGGER" -> "LogTriggerFrame"
      [] type = "SPECIAL_START_TRIGGER" -> "StartTriggerFrame"
      [] OTHER -> "none"

\* cls.from_raw(frame) for the class named cls.
from_raw(cls, frame) ==
    CASE cls = "CanFrame" -> CanFrame_from_raw(frame)
      [] cls = "CanBusErrorFrame" -> CanBusErrorFrame_from_raw(frame)
      [] cls = "DelayFrame" -> DelayFrame_from_raw(frame)
      [] cls = "LogTriggerFrame" -> LogTriggerFrame_from_raw(frame)
      [] cls = "StartTriggerFrame" -> StartTriggerFrame_from_raw(frame)

XnetFrame_from_raw(frame) ==
    LET cls == frame_type(frame.type)
    IN  CASE cls = "none" -> Raise("NotImplementedError")
          [] cls = "CanFrame" -> CanFrame_from_raw(frame)
          [] cls = "CanBusErrorFrame" -> CanBusErrorFrame_from_raw(frame)
          [] cls = "DelayFrame" -> DelayFrame_from_raw(frame)
          [] cls = "LogTriggerFrame" -> LogTriggerFrame_from_raw(frame)
          [] cls = "StartTriggerFrame" -> StartTriggerFrame_from_raw(frame)

(***************************************************************************)
(* The Raw Frame Format (nixnet/_frames.py): a record is a 16-byte header  *)
(* (timestamp, identifier, type, flags, info, payload length) and the      *)
(* payload, padded so that the record is the 24-byte base unit or, for a   *)
(* payload of more than 8 bytes, the base unit and whole 8-byte units.     *)
(* Timestamps are held as TLC integers, so below 2^31.                     *)
(***************************************************************************)
HeaderSize == 16

PayloadUnit == 8

FormatMaxPayload == 255

\* nxFrameFixed_t.size: the base unit.
nxFrameFixed_t_size == HeaderSize + PayloadUnit

\* constants.FrameType, member to wire value.
FrameTypeValue ==
    [t \in FrameType |->
        CASE t = "CAN_DATA" -> 0
          [] t = "CAN_REMOTE" -> 1
          [] t = "CAN_BUS_ERROR" -> 2
          [] t = "CAN20_DATA" -> 8
          [] t = "CANFD_DATA" -> 16
          [] t = "CANFDBRS_DATA" -> 24
          [] t = "FLEXRAY_DATA" -> 32
          [] t = "FLEXRAY_NULL" -> 33
          [] t = "LIN_DATA" -> 64
          [] t = "LIN_BUS_ERROR" -> 65
          [] t = "LIN_NO_RESPONSE" -> 66
          [] t = "J1939_DATA" -> 192
          [] t = "SPECIAL_DELAY" -> 224
          [] t = "SPECIAL_LOG_TRIGGER" -> 225
          [] t = "SPECIAL_START_TRIGGER" -> 226]

\* constants.FrameType(value), for the value of a member.
FrameTypeOf(value) == CHOOSE t \in FrameType : FrameTypeValue[t] = value

\* n as k little-endian bytes.
RECURSIVE LittleEndian(_, _)
LittleEndian(n, k) ==
    IF k = 0 THEN <<>> ELSE <<n % 256>> \o LittleEndian(n \div 256, k - 1)

RECURSIVE FromLittleEndian(_)
FromLittleEndian(bytes) ==
    IF bytes = <<>> THEN 0 ELSE Head(bytes) + 256 * FromLittleEndian(Tail(bytes))

Zeros(n) == [i \in 1 .. n |-> 0]

\* The bytes of a record whose payload has payload_len bytes.
RecordSize(payload_len) ==
    IF payload_len <= PayloadUnit THEN nxFrameFixed_t_size
    ELSE HeaderSize + PayloadUnit * ((payload_len + PayloadUnit - 1) \div PayloadUnit)

\* _frames.serialize_frame(frame): the units of the record, joined.
serialize_frame(frame) ==
    IF Len(frame.payload) > FormatMaxPayload THEN Raise("PayloadTooLarge")
    ELSE Return(LittleEndian(frame.timestamp, 8)
                \o LittleEndian(frame.identifier[2], 2)
                \o LittleEndian(frame.identifier[1], 2)
                \o <<FrameTypeValue[frame.type], frame.flags, frame.info,
                     Len(frame.payload)>>
                \o frame.payload
                \o Zeros(RecordSize(Len(frame.payload)) - HeaderSize
                         - Len(frame.payload)))

\* The record that starts at offset (from 0) in bytes, which holds all of it.
decode_one(bytes, offset) ==
    RawFrame(FromLittleEndian(SubSeq(bytes, offset + 1, offset + 8)),
             <<FromLittleEndian(SubSeq(bytes, offset + 11, offset + 12)),
               FromLittleEndian(SubSeq(bytes, offset + 9, offset + 10))>>,
             FrameTypeOf(bytes[offset + 13]),
             bytes[offset + 14],
             bytes[offset + 15],
             SubSeq(bytes, offset + HeaderSize + 1,
                    offset + HeaderSize + bytes[offset + 16]))

\* Whether a whole record starts at offset in bytes.
HasRecord(bytes, offset) ==
    /\ Len(bytes) - offset >= nxFrameFixed_t_size
    /\ Len(bytes) - offset >= RecordSize(bytes[offset + 16])

\* _frames.iterate_frames(bytes), from offset on: the records in order;
\* trailing bytes that are no whole record are dropped.
RECURSIVE iterate_frames_from(_, _)
iterate_frames_from(bytes, offset) ==
    IF ~HasRecord(bytes, offset) THEN <<>>
    ELSE <<decode_one(bytes, offset)>>
         \o iterate_frames_from(bytes, offset + RecordSize(bytes[offset + 16]))

iterate_frames(bytes) == iterate_frames_from(bytes, 0)

\* How many bytes of held, from offset on, are whole records that fit into
\* budget bytes.
RECURSIVE WholeRecords(_, _, _)
WholeRecords(held, offset, budget) ==
    IF ~HasRecord(held, offset) \/ RecordSize(held[offset + 16]) > budget
    THEN 0
    ELSE RecordSize(held[offset + 16])
         + WholeRecords(held, offset + RecordSize(held[offset + 16]),
                        budget - RecordSize(held[offset + 16]))

\* _funcs.nx_read_frame: the whole records at the head of what the driver
\* holds that fit into number_of_bytes_to_read bytes.
nx_read_frame(held, number_of_bytes_to_read) ==
    SubSeq(held, 1, WholeRecords(held, 0, number_of_bytes_to_read))

\* b"".join over a sequence of byte strings.
RECURSIVE join(_)
join(units) == IF units = <<>> THEN <<>> ELSE Head(units) \o join(Tail(units))

Reverse(seq) == [i \in 1 .. Len(seq) |-> seq[Len(seq) + 1 - i]]

\* OutFrames.write_raw(raw_frames): the byte string it passes to
\* self.write_bytes, b"".join of the frames' units in the order of
\* raw_frames; or the exception of a frame that does not serialize, raised
\* while joining, before write_bytes is reached.
serialize_units(raw_frames, order) ==
    LET units == [i \in 1 .. Len(raw_frames) |-> serialize_frame(raw_frames[order[i]])]
        failed == { i \in 1 .. Len(units) : units[i].exc # "none" }
    IN  IF failed # {}
        THEN Raise(units[CHOOSE i \in failed : \A j \in failed : i <= j].exc)
        ELSE Return(join([i \in 1 .. Len(units) |-> units[i].value]))

\* write_raw that leaves the last frame out.
OutFrames_write_raw_DropLast(raw_frames) ==
    serialize_units(SubSeq(raw_frames, 1, Len(raw_frames) - 1),
                    [i \in 1 .. Len(raw_frames) - 1 |-> i])

\* write_raw that joins the frames' units last frame first.
OutFrames_write_raw_Reversed(raw_frames) ==
    serialize_units(raw_frames, Reverse([i \in 1 .. Len(raw_frames) |-> i]))

OutFrames_write_raw(raw_frames) ==
    serialize_units(raw_frames, [i \in 1 .. Len(raw_frames) |-> i])

\* What write_can and the write_raw it calls do with the generator
\* (frame.to_raw() for frame in can_frames): b"".join pulls one frame at a
\* time, converting it and then serializing it, and the first exception of
\* either ends the call before write_bytes is reached.  The result is the
\* exception, if any, and the byte strings handed to write_bytes.
converted_units(can_frames) ==
    [i \in 1 .. Len(can_frames) |->
        LET raw == to_raw(can_frames[i])
        IN  IF raw.exc # "none" THEN raw ELSE serialize_frame(raw.value)]

\* write_can that hands each frame to write_bytes as soon as it is converted.
OutFrames_write_can_PerFrame(can_frames) ==
    LET units == converted_units(can_frames)
        failed == { i \in 1 .. Len(units) : units[i].exc # "none" }
        first == IF failed = {} THEN Len(units) + 1
                 ELSE CHOOSE i \in failed : \A j \in failed : i <= j
    IN  [exc |-> IF failed = {} THEN "none" ELSE units[first].exc,
         calls |-> [i \in 1 .. first - 1 |-> units[i].value]]

\* OutFrames.write_can(can_frames)
OutFrames_write_can(can_frames) ==
    LET units == converted_units(can_frames)
        failed == { i \in 1 .. Len(units) : units[i].exc # "none" }
    IN  IF failed # {}
        THEN [exc |-> units[CHOOSE i \in failed : \A j \in failed : i <= j].exc,
              calls |-> <<>>]
        ELSE [exc |-> "none",
              calls |-> <<join([i \in 1 .. Len(units) |-> units[i].value])>>]

\* InFrames.read_bytes(number_of_bytes_to_read): buffer[0:returned].
InFrames_read_bytes(held, number_of_bytes_to_read) ==
    nx_read_frame(held, number_of_bytes_to_read)

\* InFrames.read_raw(number_to_read): the bytes it asks read_bytes for.
InFrames_read_raw_buffer(held, number_to_read) ==
    InFrames_read_bytes(held, number_to_read * nxFrameFixed_t_size)

\* InFrames.read_raw(number_to_read): the frames it yields from that buffer.
InFrames_read_raw(buffer) == iterate_frames(buffer)

\* InFrames.read_can(number_to_read): what it yields for the frames that
\* self.read_raw yields, one types.CanFrame.from_raw call each.
InFrames_read_can(raw_frames) ==
    [i \in 1 .. Len(raw_frames) |-> CanFrame_from_raw(raw_frames[i])]

(***************************************************************************)
(* Collection and Item                                                     *)
(***************************************************************************)
\* Keys: an int, a string, or an object that is neither.
IntKey(i) == [type |-> "int", int |-> i]

StrKey(s) == [type |-> "str", str |-> s]

OtherKey == [type |-> "other"]

Item(item_handle, index, name) ==
    [handle |-> item_handle, index |-> index, name |-> name]

Item_eq(self, other) ==
    /\ self.handle = other.handle
    /\ self.index = other.index

\* Frames._create_item
_create_item(item_handle, index, name) == Item(item_handle, index, name)

\* self.__list_cache once fetched: a list object holding the names.
List(names) == [list |-> names]

\* A _list_cache property that asks the driver on every read.
_list_cache_Refetch(cache, driver_names) == List(driver_names)

\* The _list_cache property: self.__list_cache after the read, which fetches
\* it from the driver (_props.get_session_list) when it is still None.
_list_cache(cache, driver_names) ==
    IF cache = None THEN List(driver_names) ELSE cache

\* The calls of _props.get_session_list the collection has made once the
\* _list_cache property was read: one more when the cache was still None.
_list_cache_calls(cache, calls, driver_names) ==
    IF cache = None THEN Append(calls, driver_names) ELSE calls

\* _props.get_session_num_in_list(handle): the driver's count, as it is now.
get_session_num_in_list(driver_names) == Len(driver_names)

\* Collection.__len__
Collection_len(driver_names) == get_session_num_in_list(driver_names)

\* The classes of frames.py that a session binds to a handle.
CollectionClasses == {"Frames", "InFrames", "OutFrames"}

\* isinstance(obj, cls) for an obj of class obj_class: InFrames and OutFrames
\* derive from Frames.
isinstance(obj_class, cls) == obj_class = cls \/ cls = "Frames"

\* A collection object: its class, _handle, __list_cache and the calls of
\* _props.get_session_list it has made.
Collection(cls, coll_handle, cache, calls) ==
    [class |-> cls, handle |-> coll_handle, cache |-> cache, calls |-> calls]

\* Whether self == other comes to read the two _list_cache properties: the
\* isinstance test and the handle comparison come first.
Collection_eq_reads(self, other_collection) ==
    /\ isinstance(other_collection.class, self.class)
    /\ self.handle = other_collection.handle

\* __eq__ that leaves the isinstance test out.
Collection_eq_AnyClass(self, other_collection, driver_names) ==
    /\ self.handle = other_collection.handle
    /\ _list_cache(self.cache, driver_names)
          = _list_cache(other_collection.cache, driver_names)

\* Collection.__eq__
Collection_eq(self, other_collection, driver_names) ==
    IF isinstance(other_collection.class, self.class)
    THEN /\ self.handle = other_collection.handle
         /\ _list_cache(self.cache, driver_names)
               = _list_cache(other_collection.cache, driver_names)
    ELSE FALSE

\* Collection.__ne__
Collection_ne(self, other_collection, driver_names) ==
    ~Collection_eq(self, other_collection, driver_names)

\* The collection after an operation that read its _list_cache (reads), or
\* did not.
AfterRead(coll, reads, driver_names) ==
    IF reads
    THEN [coll EXCEPT !.cache = _list_cache(coll.cache, driver_names),
                      !.calls = _list_cache_calls(coll.cache, coll.calls,
                                                  driver_names)]
    ELSE coll

\* The generator object that calling __iter__ returns: nothing of its body
\* has run.  item_count is the body's local, set on the first advance; pos is
\* the position of enumerate; yielded the items it has yielded so far; exc
\* how the body ended ("none" while it has not).
Generator ==
    [state |-> "created", item_count |-> 0, pos |-> 0, yielded |-> <<>>,
     exc |-> "none"]

\* The for loop of __iter__, resumed: yield the next item or return.
iter_resume(gen, self_handle, item_names, first_index) ==
    IF gen.pos < Len(item_names)
    THEN [gen EXCEPT !.state = "running",
                     !.yielded = Append(@, _create_item(self_handle,
                                                       first_index + gen.pos,
                                                       item_names[gen.pos + 1])),
                     !.pos = @ + 1]
    ELSE [gen EXCEPT !.state = "finished", !.exc = "StopIteration"]

\* __iter__ whose assertion is left out.
Collection_iter_next_NoAssert(gen, self_handle, item_count, item_names) ==
    IF gen.state = "finished" THEN gen
    ELSE iter_resume([gen EXCEPT !.item_count =
                                    IF gen.state = "created" THEN item_count
                                    ELSE @],
                     self_handle, item_names, 0)

\* __iter__ that numbers the items from 1.
Collection_iter_next_FromOne(gen, self_handle, item_count, item_names) ==
    IF gen.state = "created"
    THEN IF item_count # Len(item_names)
         THEN [gen EXCEPT !.state = "finished", !.item_count = item_count,
                          !.exc = "AssertionError"]
         ELSE iter_resume([gen EXCEPT !.item_count = item_count],
                          self_handle, item_names, 1)
    ELSE IF gen.state = "running"
    THEN iter_resume(gen, self_handle, item_names, 1)
    ELSE gen

\* next() of a generator of Collection.__iter__: the generator afterwards.
\* item_count is len(self) and item_names self._list_cache, both read on the
\* first advance only.
Collection_iter_next(gen, self_handle, item_count, item_names) ==
    IF gen.state = "created"
    THEN IF item_count # Len(item_names)
         THEN [gen EXCEPT !.state = "finished", !.item_count = item_count,
                          !.exc = "AssertionError"]
         ELSE iter_resume([gen EXCEPT !.item_count = item_count],
                          self_handle, item_names, 0)
    ELSE IF gen.state = "running"
    THEN iter_resume(gen, self_handle, item_names, 0)
    ELSE gen

\* What that next() call gives its caller: the item yielded, or the
\* exception raised.
next_result(gen, after) ==
    IF Len(after.yielded) > Len(gen.yielded)
    THEN Return(after.yielded[Len(after.yielded)])
    ELSE IF gen.state = "finished" THEN Raise("StopIteration")
    ELSE Raise(after.exc)

\* Python's list[i]: a negative i counts from the end.
list_getitem(list, i) ==
    IF 0 <= i /\ i < Len(list) THEN Return(list[i + 1])
    ELSE IF i < 0 /\ -Len(list) <= i THEN Return(list[Len(list) + i + 1])
    ELSE Raise("IndexError")

\* list.index that finds the last occurrence.
RECURSIVE list_index_Last(_, _)
list_index_Last(list, name) ==
    IF list = <<>> THEN -1
    ELSE IF list[Len(list)] = name THEN Len(list) - 1
    ELSE list_index_Last(SubSeq(list, 1, Len(list) - 1), name)

\* Python's list.index(name): the first position holding name; -1 stands
\* for ValueError.
RECURSIVE list_index(_, _)
list_index(list, name) ==
    IF list = <<>> THEN -1
    ELSE IF Head(list) = name THEN 0
    ELSE LET rest == list_index(Tail(list), name)
         IN  IF rest = -1 THEN -1 ELSE rest + 1

\* __contains__ with the upper bound included.
Collection_contains_OffByOne(names, index) ==
    IF index.type = "int"
    THEN Return(0 <= index.int /\ index.int <= Len(names))
    ELSE IF index.type = "str"
    THEN Return(\E i \in 1 .. Len(names) : names[i] = index.str)
    ELSE Raise("TypeError")

\* __contains__, names being self._list_cache.
Collection_contains(names, index) ==
    IF index.type = "int"
    THEN Return(0 <= index.int /\ index.int < Len(names))
    ELSE IF index.type = "str"
    THEN Return(\E i \in 1 .. Len(names) : names[i] = index.str)
    ELSE Raise("TypeError")

\* __getitem__, names being self._list_cache.
Collection_getitem(self_handle, names, index) ==
    IF index.type = "int"
    THEN LET name == list_getitem(names, index.int)
         IN  IF name.exc # "none" THEN Raise(name.exc)
             ELSE Return(_create_item(self_handle, index.int, name.value))
    ELSE IF index.type = "str"
    THEN LET i == list_index(names, index.str)
         IN  IF i = -1 THEN Raise("KeyError")
             ELSE Return(_create_item(self_handle, i, index.str))
    ELSE Raise("TypeError")

\* get, names being self._list_cache.
Collection_get(self_handle, names, index, default) ==
    IF index.type = "int"
    THEN LET name == list_getitem(names, index.int)
         IN  IF name.exc = "IndexError" THEN Return(default)
             ELSE Return(_create_item(self_handle, index.int, name.value))
    ELSE IF index.type = "str"
    THEN LET i == list_index(names, index.str)
         IN  IF i = -1 THEN Return(default)
             ELSE Return(_create_item(self_handle, i, index.str))
    ELSE Raise("TypeError")

\* Whether an operation on this key reads self._list_cache.
ReadsCache(index) == index.type \in {"int", "str"}

(***************************************************************************)
(* SpecIdent: identifiers are constructed, converted with int() and parsed *)
(* with from_raw.  The inputs lie within Near of the values where a mask   *)
(* or flag bit changes.                                                    *)
(***************************************************************************)
Near == 1

IdLandmarks ==
    { <<0, 0>>, <<0, \H03FF>>, <<0, \H0500>>, <<0, \H07FF>>,
      <<\H1FFF, \HFFFF>>, <<\H2000, 0>>, <<\H2000, \H03FF>>,
      <<\H3FFF, \HFFFF>>,
      <<\H7FFF, \HFFFF>>, <<\HFFFF, \HFFFF>> }

\* What a caller may pass as an identifier: any Python int.
IdInputs == { PyAdd(b, d) : b \in IdLandmarks, d \in -Near .. Near }

\* The raw 32-bit identifiers a record can carry.
U32Max == <<Limb - 1, Limb - 1>>

RawIdInputs == { r \in IdInputs : PyLe(PyZero, r) /\ PyLe(r, U32Max) }

IdentIdle ==
    /\ idArgs = None /\ canId = None /\ rawId = None /\ parsed = None
    /\ idOp = "idle" /\ idExc = "none"

\* ident = CanIdentifier(identifier, extended)
NewIdentifier(identifier, extended) ==
    /\ idArgs' = [identifier |-> identifier, extended |-> extended]
    /\ canId' = CanIdentifier(identifier, extended)
    /\ rawId' = None
    /\ parsed' = None
    /\ idOp' = "init"
    /\ idExc' = "none"
    /\ UNCHANGED notIdent

\* raw = int(ident)
IntIdentifier ==
    /\ canId # None
    /\ idOp = "init"
    /\ LET r == CanIdentifier_int(canId)
       IN  /\ rawId' = r.value
           /\ idExc' = r.exc
    /\ idOp' = "int"
    /\ UNCHANGED <<idArgs, canId, parsed>>
    /\ UNCHANGED notIdent

\* CanIdentifier.from_raw(raw) of the raw value int(ident) returned
ParseBack ==
    /\ idOp = "int"
    /\ idExc = "none"
    /\ parsed' = CanIdentifier_from_raw(rawId)
    /\ idOp' = "roundtrip"
    /\ UNCHANGED <<idArgs, canId, rawId, idExc>>
    /\ UNCHANGED notIdent

\* ident = CanIdentifier.from_raw(raw) of a raw value off the wire
FromRawIdentifier(raw) ==
    /\ idArgs' = None
    /\ rawId' = raw
    /\ canId' = CanIdentifier_from_raw(raw)
    /\ parsed' = None
    /\ idOp' = "from_raw"
    /\ idExc' = "none"
    /\ UNCHANGED notIdent

NextIdent ==
    \/ \E identifier \in IdInputs, extended \in BOOLEAN :
          NewIdentifier(identifier, extended)
    \/ IntIdentifier
    \/ ParseBack
    \/ \E raw \in RawIdInputs : FromRawIdentifier(raw)


(***************************************************************************)
(* SpecFrame: a raw record is decoded, by the dispatch of XnetFrame or by  *)
(* CanBusErrorFrame directly.  The records are: every type with every      *)
(* header and a payload of at most one byte, and bus-error records with    *)
(* every payload of at most MaxPayloadLen bytes.                           *)
(***************************************************************************)
MaxPayloadLen == 5

ByteInputs == {0, 1, 3, 4, 255}

Payloads(n) == UNION { [1 .. k -> ByteInputs] : k \in 0 .. n }

TimestampInputs == {5, 100}

RawFrameInputs ==
    { RawFrame(timestamp, identifier, type, flags, 0, payload) :
        timestamp \in TimestampInputs,
        identifier \in {<<0, 1>>, <<\H2000, 1>>},
        type \in FrameType,
        flags \in {0, NX_FRAME_FLAGS_TRANSMIT_ECHO},
        payload \in Payloads(1) }
    \cup
    { RawFrame(timestamp, PyZero, "CAN_BUS_ERROR", 0, 0, payload) :
        timestamp \in TimestampInputs,
        payload \in Payloads(MaxPayloadLen) }
    \cup
    { RawFrame(timestamp, identifier, type, flags, 0, payload) :
        timestamp \in TimestampInputs,
        identifier \in {<<0, \H0401>>, <<\H3FFF, \HFFFF>>},
        type \in CanFrameTypes,
        flags \in {1, \H7F, \H81, \HFF},
        payload \in Payloads(1) }

FrameNew(frame) ==
    /\ typedFrame = None /\ rawFrame = frame
    /\ frameOp = "new" /\ frameRet = None

\* XnetFrame.from_raw(frame)
XnetFromRaw ==
    /\ frameOp = "new"
    /\ frameOp' = "XnetFrame.from_raw"
    /\ frameRet' = XnetFrame_from_raw(rawFrame)
    /\ UNCHANGED <<typedFrame, rawFrame>>
    /\ UNCHANGED notFrame

\* CanBusErrorFrame.from_raw(frame)
BusErrorFromRaw ==
    /\ frameOp = "new"
    /\ frameOp' = "CanBusErrorFrame.from_raw"
    /\ frameRet' = CanBusErrorFrame_from_raw(rawFrame)
    /\ UNCHANGED <<typedFrame, rawFrame>>
    /\ UNCHANGED notFrame

\* DelayFrame.from_raw(frame), LogTriggerFrame.from_raw(frame) or
\* StartTriggerFrame.from_raw(frame), on a record of any type
PseudoFrameFromRaw(cls) ==
    /\ frameOp = "new"
    /\ frameOp' = cls
    /\ frameRet' = from_raw(cls, rawFrame)
    /\ UNCHANGED <<typedFrame, rawFrame>>
    /\ UNCHANGED notFrame

PseudoFrameClasses == {"DelayFrame", "LogTriggerFrame", "StartTriggerFrame"}

\* CanFrame.from_raw(frame), on a record of any type
CanFrameFromRaw ==
    /\ frameOp = "new"
    /\ frameOp' = "CanFrame.from_raw"
    /\ frameRet' = CanFrame_from_raw(rawFrame)
    /\ UNCHANGED <<typedFrame, rawFrame>>
    /\ UNCHANGED notFrame

\* CanFrame(identifier, type, payload) with the fields of the record at hand
\* as arguments, the identifier as the int it is or as a CanIdentifier.
NewCanFrame(as_int) ==
    /\ frameOp = "new"
    /\ frameOp' = "CanFrame"
    /\ frameRet' =
          Return(CanFrame_init(IF as_int THEN IntArg(rawFrame.identifier)
                               ELSE ObjArg(CanIdentifier_from_raw(rawFrame.identifier)),
                               rawFrame.type, rawFrame.payload))
    /\ UNCHANGED <<typedFrame, rawFrame>>
    /\ UNCHANGED notFrame

NextFrame ==
    \/ XnetFromRaw
    \/ BusErrorFromRaw
    \/ \E cls \in PseudoFrameClasses : PseudoFrameFromRaw(cls)
    \/ CanFrameFromRaw
    \/ \E as_int \in BOOLEAN : NewCanFrame(as_int)

(***************************************************************************)
(* SpecTyped: a typed frame is converted with to_raw, and the raw record   *)
(* is decoded again, by the from_raw of the frame's class or by the        *)
(* dispatch of XnetFrame.  The frames are delay and trigger frames whose   *)
(* value is at most MaxTick or one of a few larger values, bus error       *)
(* frames of every state and last error, and a few CAN frames.             *)
(***************************************************************************)
MaxTick == 30

TickInputs == 0 .. MaxTick \cup {250, 65535, 65536, \H7FFFFFFF}

TypedFrameInputs ==
    { DelayFrame(offset) : offset \in TickInputs }
    \cup { LogTriggerFrame(timestamp) : timestamp \in TickInputs }
    \cup { StartTriggerFrame(timestamp) : timestamp \in TickInputs }
    \cup { CanBusErrorFrame(timestamp, state, tcvr_err, bus_err,
                            tx_err_count, rx_err_count) :
             timestamp \in {100},
             state \in CanCommState,
             tcvr_err \in BOOLEAN,
             bus_err \in CanLastErr,
             tx_err_count \in {0, 255, 256},
             rx_err_count \in {1, 255} }
    \cup { CanFrame_init(identifier, type, payload) :
             identifier \in {IntArg(<<0, 1>>), IntArg(<<0, \H0800>>),
                             ObjArg(CanIdentifier(<<0, \H0800>>, TRUE)),
                             ObjArg(CanIdentifier(<<\H2000, 0>>, TRUE))},
             type \in {"CAN_DATA", "CAN_REMOTE"},
             payload \in {<<>>, <<1, 255>>} }

TypedNew(frame) ==
    /\ typedFrame = frame /\ rawFrame = None
    /\ frameOp = "new" /\ frameRet = None

\* raw = frame.to_raw()
ToRaw ==
    /\ frameOp = "new"
    /\ LET raw == to_raw(typedFrame)
       IN  /\ rawFrame' = raw.value
           /\ frameOp' = IF raw.exc = "none" THEN "to_raw" ELSE raw.exc
    /\ UNCHANGED <<typedFrame, frameRet>>
    /\ UNCHANGED notFrame

\* type(frame).from_raw(raw)
FromRawBack ==
    /\ frameOp = "to_raw"
    /\ frameOp' = "from_raw"
    /\ frameRet' = from_raw(typedFrame.class, rawFrame)
    /\ UNCHANGED <<typedFrame, rawFrame>>
    /\ UNCHANGED notFrame

\* XnetFrame.from_raw(raw)
DispatchBack ==
    /\ frameOp = "to_raw"
    /\ frameOp' = "XnetFrame.from_raw"
    /\ frameRet' = XnetFrame_from_raw(rawFrame)
    /\ UNCHANGED <<typedFrame, rawFrame>>
    /\ UNCHANGED notFrame

NextTyped ==
    \/ ToRaw
    \/ FromRawBack
    \/ DispatchBack

(***************************************************************************)
(* SpecColl: one collection bound to a handle whose driver-side list holds *)
(* at most MaxNames names; the driver's list may change MaxDriverEdits     *)
(* times behind the collection's back.                                     *)
(***************************************************************************)
MaxNames == 3

MaxDriverEdits == 1

NameInputs == {"a", "b", "c"}

HandleInputs == {1, 2}

NameLists == UNION { [1 .. k -> NameInputs] : k \in 0 .. MaxNames }

KeyInputs ==
    { IntKey(i) : i \in -(MaxNames + 1) .. MaxNames + 1 }
    \cup { StrKey(n) : n \in NameInputs \cup {"z"} }
    \cup { OtherKey }

\* What a caller passes as the default of get: None, or an object of its own.
DefaultInputs == { None, [default |-> TRUE] }

\* Collection(handle), the driver holding names for that handle.
CollNew(h, names) ==
    /\ handle = h /\ driverList = names /\ driverEdits = 0
    /\ listCache = None /\ listCalls = <<>> /\ iters = <<>>
    /\ collKey = None /\ collDefault = None
    /\ collOp = "new" /\ collRet = None

\* key in collection
Contains(key) ==
    /\ collOp' = "contains"
    /\ collKey' = key
    /\ listCache' = IF ReadsCache(key) THEN _list_cache(listCache, driverList)
                    ELSE listCache
    /\ listCalls' = IF ReadsCache(key)
                    THEN _list_cache_calls(listCache, listCalls, driverList)
                    ELSE listCalls
    /\ collRet' = Collection_contains(_list_cache(listCache, driverList).list, key)
    /\ collDefault' = None
    /\ UNCHANGED <<collClass, handle, driverList, driverEdits, otherColl, iters>>
    /\ UNCHANGED notColl

\* collection[key]
GetItem(key) ==
    /\ collOp' = "getitem"
    /\ collKey' = key
    /\ listCache' = IF ReadsCache(key) THEN _list_cache(listCache, driverList)
                    ELSE listCache
    /\ listCalls' = IF ReadsCache(key)
                    THEN _list_cache_calls(listCache, listCalls, driverList)
                    ELSE listCalls
    /\ collRet' = Collection_getitem(handle, _list_cache(listCache, driverList).list,
                                      key)
    /\ collDefault' = None
    /\ UNCHANGED <<collClass, handle, driverList, driverEdits, otherColl, iters>>
    /\ UNCHANGED notColl

\* collection.get(key, default)
Get(key, default) ==
    /\ collOp' = "get"
    /\ collKey' = key
    /\ collDefault' = default
    /\ listCache' = IF ReadsCache(key) THEN _list_cache(listCache, driverList)
                    ELSE listCache
    /\ listCalls' = IF ReadsCache(key)
                    THEN _list_cache_calls(listCache, listCalls, driverList)
                    ELSE listCalls
    /\ collRet' = Collection_get(handle, _list_cache(listCache, driverList).list,
                                  key, default)
    /\ UNCHANGED <<collClass, handle, driverList, driverEdits, otherColl, iters>>
    /\ UNCHANGED notColl

\* len(collection)
Length ==
    /\ collOp' = "len"
    /\ collKey' = None
    /\ collDefault' = None
    /\ collRet' = Return(Collection_len(driverList))
    /\ UNCHANGED <<collClass, handle, driverList, driverEdits, listCache,
                   listCalls, otherColl, iters>>
    /\ UNCHANGED notColl

\* The collection as an object.
Self == Collection(collClass, handle, listCache, listCalls)

\* The two operands of a comparison whose left operand is left.
Operands(left) ==
    IF left = "self" THEN <<Self, otherColl>> ELSE <<otherColl, Self>>

\* collection == other (left = "self") or other == collection
Equal(left) ==
    /\ otherColl # None
    /\ LET a == Operands(left)[1]
           b == Operands(left)[2]
           reads == Collection_eq_reads(a, b)
       IN  /\ collRet' = Return(Collection_eq(a, b, driverList))
           /\ listCache' = AfterRead(Self, reads, driverList).cache
           /\ listCalls' = AfterRead(Self, reads, driverList).calls
           /\ otherColl' = AfterRead(otherColl, reads, driverList)
    /\ collOp' = "eq"
    /\ collKey' = [type |-> "collection", left |-> left]
    /\ collDefault' = None
    /\ UNCHANGED <<collClass, handle, driverList, driverEdits, iters>>
    /\ UNCHANGED notColl

\* collection != other (left = "self") or other != collection
NotEqual(left) ==
    /\ otherColl # None
    /\ LET a == Operands(left)[1]
           b == Operands(left)[2]
           reads == Collection_eq_reads(a, b)
       IN  /\ collRet' = Return(Collection_ne(a, b, driverList))
           /\ listCache' = AfterRead(Self, reads, driverList).cache
           /\ listCalls' = AfterRead(Self, reads, driverList).calls
           /\ otherColl' = AfterRead(otherColl, reads, driverList)
    /\ collOp' = "ne"
    /\ collKey' = [type |-> "collection", left |-> left]
    /\ collDefault' = None
    /\ UNCHANGED <<collClass, handle, driverList, driverEdits, iters>>
    /\ UNCHANGED notColl

\* iter(collection): a new generator; none of __iter__'s body runs yet.
Iterate(max_iters) ==
    /\ Len(iters) < max_iters
    /\ iters' = Append(iters, Generator)
    /\ collOp' = "iter"
    /\ collKey' = None
    /\ collDefault' = None
    /\ collRet' = None
    /\ UNCHANGED <<collClass, handle, driverList, driverEdits, listCache,
                   listCalls, otherColl>>
    /\ UNCHANGED notColl

\* next(g), g being the k-th generator.  The first advance runs len(self)
\* and reads self._list_cache.
IterNext(k) ==
    /\ k \in 1 .. Len(iters)
    /\ LET gen == iters[k]
           reads == gen.state = "created"
           after == Collection_iter_next(gen, handle, Collection_len(driverList),
                                         _list_cache(listCache, driverList).list)
       IN  /\ iters' = [iters EXCEPT ![k] = after]
           /\ listCache' = AfterRead(Self, reads, driverList).cache
           /\ listCalls' = AfterRead(Self, reads, driverList).calls
           /\ collRet' = next_result(gen, after)
    /\ collOp' = "next"
    /\ collKey' = [type |-> "generator", iter |-> k]
    /\ collDefault' = None
    /\ UNCHANGED <<collClass, handle, driverList, driverEdits, otherColl>>
    /\ UNCHANGED notColl

\* The driver's list (an external collaborator's state) gains a name.
DriverAppend(name) ==
    /\ driverEdits < MaxDriverEdits
    /\ Len(driverList) < MaxNames
    /\ driverList' = Append(driverList, name)
    /\ driverEdits' = driverEdits + 1
    /\ UNCHANGED <<collClass, handle, listCache, listCalls, otherColl, iters>>
    /\ UNCHANGED <<collKey, collDefault, collOp, collRet>>
    /\ UNCHANGED notColl

\* The driver's list loses its last name.
DriverRemove ==
    /\ driverEdits < MaxDriverEdits
    /\ driverList # <<>>
    /\ driverList' = SubSeq(driverList, 1, Len(driverList) - 1)
    /\ driverEdits' = driverEdits + 1
    /\ UNCHANGED <<collClass, handle, listCache, listCalls, otherColl, iters>>
    /\ UNCHANGED <<collKey, collDefault, collOp, collRet>>
    /\ UNCHANGED notColl

NextColl ==
    \/ \E key \in KeyInputs : Contains(key)
    \/ \E key \in KeyInputs : GetItem(key)
    \/ \E key \in KeyInputs, default \in DefaultInputs : Get(key, default)
    \/ \E name \in NameInputs : DriverAppend(name)
    \/ DriverRemove

(***************************************************************************)
(* Three specifications of collections in use, over a driver list of at    *)
(* most MaxUseNames names that may change behind the collections.          *)
(*   SpecUse   every operation of Collection on a Frames collection: len,  *)
(*             iter and next, in, [], get, == and != against an InFrames   *)
(*             collection bound to the same or to another handle (with     *)
(*             either collection on the left).                             *)
(*   SpecIter  up to MaxIters generators of one collection, advanced in    *)
(*             any interleaving, with lookups in between.                  *)
(*   SpecEq    == and != between two collections of any classes, bound to  *)
(*             the same or to different handles, with lookups in between.  *)
(***************************************************************************)
MaxUseNames == 2

MaxIters == 2

UseNameInputs == {"a", "b"}

UseNameLists == UNION { [1 .. k -> UseNameInputs] : k \in 0 .. MaxUseNames }

UseKeyInputs == { IntKey(0), StrKey("b"), OtherKey }

\* Frames(h), InFrames(h) or OutFrames(h) twice, the second one on any handle.
UseNew(cls, names, other_cls, other_handle) ==
    /\ CollNew(CHOOSE h \in HandleInputs : \A g \in HandleInputs : h <= g, names)
    /\ collClass = cls
    /\ otherColl = Collection(other_cls, other_handle, None, <<>>)

\* The driver's list gains a name, within the names of these specifications.
UseDriverAppend(name) ==
    /\ Len(driverList) < MaxUseNames
    /\ DriverAppend(name)

\* iter(collection) while one generator at most is alive.
IterateOnce == Len(iters) = 0 /\ Iterate(MaxIters)

NextUse ==
    \/ Length
    \/ \E key \in UseKeyInputs : Contains(key)
    \/ \E key \in UseKeyInputs : GetItem(key)
    \/ \E key \in UseKeyInputs : Get(key, None)
    \/ \E left \in {"self", "other"} : Equal(left)
    \/ \E left \in {"self", "other"} : NotEqual(left)
    \/ IterateOnce
    \/ \E k \in 1 .. MaxIters : IterNext(k)
    \/ \E name \in UseNameInputs : UseDriverAppend(name)
    \/ DriverRemove

NextIter ==
    \/ Iterate(MaxIters)
    \/ \E k \in 1 .. MaxIters : IterNext(k)
    \/ GetItem(IntKey(0))
    \/ \E name \in UseNameInputs : UseDriverAppend(name)
    \/ DriverRemove

NextEq ==
    \/ \E left \in {"self", "other"} : Equal(left)
    \/ \E left \in {"self", "other"} : NotEqual(left)
    \/ GetItem(IntKey(0))
    \/ \E name \in UseNameInputs : UseDriverAppend(name)
    \/ DriverRemove

(***************************************************************************)
(* SpecCodec: an output session writes up to MaxFrames raw frames with     *)
(* write_raw; an input session on the same bus reads them back with        *)
(* read_raw, asking for up to MaxNumberToRead frames; or it writes up to   *)
(* MaxFrames typed frames with write_can, some of which do not convert.    *)
(* The raw frames written                                                  *)
(* are a plain frame, two frames with every header field set, and frames   *)
(* whose payload lengths lie around the 8 bytes of the base unit, up to    *)
(* MaxCodecPayload.                                                        *)
(***************************************************************************)
MaxFrames == 3

MaxNumberToRead == 4

MaxCodecPayload == 9

CodecPayload(n, first) == [i \in 1 .. n |-> (first + i - 1) % 256]

CodecFrameInputs ==
    { RawFrame(5, <<0, 1>>, "CAN_DATA", 0, 0, <<>>),
      RawFrame(256, <<\H2000, \H0400>>, "CAN_BUS_ERROR", 0, 1, CodecPayload(1, 255)),
      RawFrame(\H7FFFFFFF, <<\HFFFF, \HFFFF>>, "SPECIAL_DELAY",
               NX_FRAME_FLAGS_TRANSMIT_ECHO, 255, CodecPayload(PayloadUnit, 250)) }
    \cup { RawFrame(5, <<0, 1>>, "CAN_DATA", 0, 0, CodecPayload(n, 1)) :
             n \in PayloadUnit - 1 .. MaxCodecPayload }

FrameSeqs(n) == UNION { [1 .. k -> CodecFrameInputs] : k \in 0 .. n }

\* What the driver of the reading session holds: what was written.
Wire == join(txCalls)

\* out_frames.write_raw(raw_frames)
WriteRaw(raw_frames) ==
    /\ codecOp = "idle"
    /\ written' = raw_frames
    /\ LET bytes == OutFrames_write_raw(raw_frames)
       IN  IF bytes.exc = "none"
           THEN /\ txCalls' = Append(txCalls, bytes.value)
                /\ codecOp' = "write_raw"
           ELSE /\ txCalls' = txCalls
                /\ codecOp' = bytes.exc
    /\ UNCHANGED <<rxBytes, readFrames, readTyped>>
    /\ UNCHANGED notCodec

\* The typed frames handed to write_can: CAN frames whose identifier fits
\* its width and CAN frames whose identifier does not, one of them an echo
\* with a timestamp, and a bus error frame with a counter that is no byte.
CanFrameInputs ==
    { CanFrame_init(IntArg(<<0, 1>>), "CAN_DATA", <<>>),
      [CanFrame_init(ObjArg(CanIdentifier(<<\H1FFF, \HFFFF>>, TRUE)),
                     "CAN_REMOTE", CodecPayload(MaxCodecPayload, 1))
          EXCEPT !.echo = TRUE, !.timestamp = 256],
      CanFrame_init(IntArg(<<0, \H0400>>), "CAN_DATA", CodecPayload(1, 255)),
      CanFrame_init(ObjArg(CanIdentifier(<<\H2000, 0>>, TRUE)), "CAN_DATA", <<>>),
      CanBusErrorFrame(5, 1, TRUE, 1, 256, 0) }

CanFrameSeqs(n) == UNION { [1 .. k -> CanFrameInputs] : k \in 0 .. n }

\* out_frames.write_can(can_frames)
WriteCan(can_frames) ==
    /\ codecOp = "idle"
    /\ written' = can_frames
    /\ LET result == OutFrames_write_can(can_frames)
       IN  /\ txCalls' = txCalls \o result.calls
           /\ codecOp' = IF result.exc = "none" THEN "write_can" ELSE result.exc
    /\ UNCHANGED <<rxBytes, readFrames, readTyped>>
    /\ UNCHANGED notCodec

\* list(in_frames.read_raw(number_to_read))
ReadRaw(number_to_read) ==
    /\ codecOp = "write_raw"
    /\ rxBytes' = InFrames_read_raw_buffer(Wire, number_to_read)
    /\ readFrames' = InFrames_read_raw(rxBytes')
    /\ codecOp' = "read_raw"
    /\ UNCHANGED <<written, txCalls, readTyped>>
    /\ UNCHANGED notCodec

\* list(in_frames.read_can(number_to_read))
ReadCan(number_to_read) ==
    /\ codecOp = "write_raw"
    /\ rxBytes' = InFrames_read_raw_buffer(Wire, number_to_read)
    /\ readFrames' = InFrames_read_raw(rxBytes')
    /\ readTyped' = InFrames_read_can(readFrames')
    /\ codecOp' = "read_can"
    /\ UNCHANGED <<written, txCalls>>
    /\ UNCHANGED notCodec

NextCodec ==
    \/ \E raw_frames \in FrameSeqs(MaxFrames) : WriteRaw(raw_frames)
    \/ \E can_frames \in CanFrameSeqs(MaxFrames) : WriteCan(can_frames)
    \/ \E number_to_read \in 0 .. MaxNumberToRead : ReadRaw(number_to_read)
    \/ \E number_to_read \in 0 .. MaxNumberToRead : ReadCan(number_to_read)

(***************************************************************************)
(* The specifications                                                      *)
(***************************************************************************)
FrameIdle ==
    /\ typedFrame = None /\ rawFrame = None
    /\ frameOp = "idle" /\ frameRet = None

CodecIdle ==
    /\ written = <<>> /\ txCalls = <<>> /\ rxBytes = <<>>
    /\ readFrames = <<>> /\ readTyped = <<>> /\ codecOp = "idle"

CollIdle ==
    /\ collClass = "Frames" /\ handle = 0
    /\ driverList = <<>> /\ driverEdits = 0
    /\ listCache = None /\ listCalls = <<>> /\ otherColl = None /\ iters = <<>>
    /\ collKey = None /\ collDefault = None
    /\ collOp = "idle" /\ collRet = None

InitIdent == IdentIdle /\ FrameIdle /\ CodecIdle /\ CollIdle

SpecIdent == InitIdent /\ [][NextIdent]_vars

InitFrame ==
    /\ \E frame \in RawFrameInputs : FrameNew(frame)
    /\ IdentIdle /\ CodecIdle /\ CollIdle

SpecFrame == InitFrame /\ [][NextFrame]_vars

InitTyped ==
    /\ \E frame \in TypedFrameInputs : TypedNew(frame)
    /\ IdentIdle /\ CodecIdle /\ CollIdle

SpecTyped == InitTyped /\ [][NextTyped]_vars

InitColl ==
    /\ \E h \in HandleInputs, names \in NameLists : CollNew(h, names)
    /\ collClass = "Frames" /\ otherColl = None
    /\ IdentIdle /\ FrameIdle /\ CodecIdle

SpecColl == InitColl /\ [][NextColl]_vars

InitUse ==
    /\ \E names \in UseNameLists, other_handle \in HandleInputs :
          UseNew("Frames", names, "InFrames", other_handle)
    /\ IdentIdle /\ FrameIdle /\ CodecIdle

SpecUse == InitUse /\ [][NextUse]_vars

InitIter ==
    /\ \E names \in UseNameLists : CollNew(1, names)
    /\ collClass = "Frames" /\ otherColl = None
    /\ IdentIdle /\ FrameIdle /\ CodecIdle

SpecIter == InitIter /\ [][NextIter]_vars

InitEq ==
    /\ \E cls \in CollectionClasses, names \in UseNameLists,
          other_cls \in CollectionClasses, other_handle \in HandleInputs :
          UseNew(cls, names, other_cls, other_handle)
    /\ IdentIdle /\ FrameIdle /\ CodecIdle

SpecEq == InitEq /\ [][NextEq]_vars

InitCodec == CodecIdle /\ IdentIdle /\ FrameIdle /\ CollIdle

SpecCodec == InitCodec /\ [][NextCodec]_vars

(***************************************************************************)
(* Claims about CanIdentifier                                              *)
(***************************************************************************)
\* The identifier value lies in 0 .. mask for its width, as numbers.
FitsWidth(id) ==
    /\ PyLe(PyZero, id.identifier)
    /\ PyLe(id.identifier,
            IF id.extended THEN <<\H1FFF, \HFFFF>> ELSE <<0, \H03FF>>)

\* C2: for every (id, extended) whose id fits the mask of its width, int()
\* of CanIdentifier(id, extended) succeeds, and CanIdentifier.from_raw of the
\* value it returns equals CanIdentifier(id, extended).
C2_IdentifierRoundTrip ==
    /\ (idOp = "int" /\ FitsWidth(canId)) => idExc = "none"
    /\ (idOp = "roundtrip" /\ FitsWidth(canId)) =>
          /\ parsed # None
          /\ CanIdentifier_eq(parsed, canId)

C2_Witness ==
    /\ idOp = "roundtrip"
    /\ canId = CanIdentifier(<<\H1FFF, \HFFFF>>, TRUE)
    /\ rawId = <<\H3FFF, \HFFFF>>
    /\ parsed = canId

\* C3: int() of an identifier whose value differs from itself masked with
\* its width mask (one outside 0 .. 0x3FF when standard, outside
\* 0 .. 0x1FFFFFFF when extended) raises NX_ERR_UNDEFINED_FRAME_ID and returns
\* no value: the value is never masked or truncated instead.
C3_OversizedIdentifierFails ==
    (idOp = "int" /\ ~FitsWidth(canId)) =>
        /\ idExc = NX_ERR_UNDEFINED_FRAME_ID
        /\ rawId = None

C3_Witness ==
    /\ idOp = "int"
    /\ canId = CanIdentifier(<<0, \H0500>>, FALSE)
    /\ idExc = NX_ERR_UNDEFINED_FRAME_ID
    /\ rawId = None

\* C4: CanIdentifier.from_raw of any 32-bit raw value returns an identifier:
\* extended exactly when bit 29 of the raw value is set, the value being the
\* raw value modulo 2^29 when extended and modulo 2^10 otherwise, so that it
\* fits its width.
C4_FromRawTotal ==
    idOp = "from_raw" =>
        /\ idExc = "none"
        /\ canId # None
        /\ canId.extended = ((rawId[1] \div (2 ^ 13)) % 2 = 1)
        /\ canId.identifier =
              (IF canId.extended
               THEN <<rawId[1] % (2 ^ 13), rawId[2]>>
               ELSE <<0, rawId[2] % (2 ^ 10)>>)
        /\ FitsWidth(canId)
        /\ (rawId = <<\H2000, 1>> => canId = CanIdentifier(<<0, 1>>, TRUE))
        /\ (rawId = <<0, 1>> => canId = CanIdentifier(<<0, 1>>, FALSE))

C4_Witness ==
    /\ idOp = "from_raw"
    /\ rawId = <<\H2000, 1>>
    /\ canId = CanIdentifier(<<0, 1>>, TRUE)

\* C18 as stated: CanIdentifier(identifier, extended) with an identifier
\* that does not fit the mask of its width (above 0x3FF when standard, above
\* 0x1FFFFFFF when extended) raises the undefined-frame-identifier error: the
\* constructor returns no object that violates the width invariant.
C18_Original ==
    idOp = "init" =>
        \/ canId = None /\ idExc = NX_ERR_UNDEFINED_FRAME_ID
        \/ canId # None /\ FitsWidth(canId)

\* C18, amended: CanIdentifier(identifier, extended) raises nothing for any
\* identifier: it returns the object holding identifier and extended as
\* given, fitting or not.  The undefined-frame-identifier error of an
\* identifier that does not fit arises when that object is converted with
\* int(), which then returns no value.
C18_ConstructorKeepsValue ==
    /\ idOp = "init" =>
          /\ idExc = "none"
          /\ canId # None
          /\ canId.identifier = idArgs.identifier
          /\ canId.extended = idArgs.extended
    /\ (idOp = "int" /\ idArgs # None /\ ~FitsWidth(idArgs)) =>
          /\ canId.identifier = idArgs.identifier
          /\ idExc = NX_ERR_UNDEFINED_FRAME_ID
          /\ rawId = None

C18_Witness ==
    /\ idOp = "init"
    /\ idArgs = [identifier |-> <<\H2000, 0>>, extended |-> TRUE]
    /\ canId = CanIdentifier(<<\H2000, 0>>, TRUE)
    /\ ~FitsWidth(canId)
    /\ idExc = "none"


(***************************************************************************)
(* Claims about typed frames                                               *)
(***************************************************************************)
\* C5: XnetFrame.from_raw picks the decoder by the record's type alone: the
\* five CAN data / remote types give what CanFrame.from_raw gives (a
\* CanFrame), CAN_BUS_ERROR what CanBusErrorFrame.from_raw gives,
\* SPECIAL_DELAY a DelayFrame, SPECIAL_LOG_TRIGGER a LogTriggerFrame,
\* SPECIAL_START_TRIGGER a StartTriggerFrame; any other type raises
\* NotImplementedError and no frame of any class is returned.
C5_DispatchByTypeTag ==
    frameOp = "XnetFrame.from_raw" =>
        LET type == rawFrame.type
        IN  /\ type \in {"CAN_DATA", "CAN20_DATA", "CANFD_DATA", "CANFDBRS_DATA",
                         "CAN_REMOTE"} =>
                  /\ frameRet = CanFrame_from_raw(rawFrame)
                  /\ frameRet.exc = "none" /\ frameRet.value.class = "CanFrame"
            /\ type = "CAN_BUS_ERROR" =>
                  /\ frameRet = CanBusErrorFrame_from_raw(rawFrame)
                  /\ frameRet.exc # "NotImplementedError"
                  /\ frameRet.exc = "none" =>
                        frameRet.value.class = "CanBusErrorFrame"
            /\ type = "SPECIAL_DELAY" =>
                  frameRet = Return(DelayFrame(rawFrame.timestamp))
            /\ type = "SPECIAL_LOG_TRIGGER" =>
                  frameRet = Return(LogTriggerFrame(rawFrame.timestamp))
            /\ type = "SPECIAL_START_TRIGGER" =>
                  frameRet = Return(StartTriggerFrame(rawFrame.timestamp))
            /\ type \notin {"CAN_DATA", "CAN20_DATA", "CANFD_DATA", "CANFDBRS_DATA",
                            "CAN_REMOTE", "CAN_BUS_ERROR", "SPECIAL_DELAY",
                            "SPECIAL_LOG_TRIGGER", "SPECIAL_START_TRIGGER"} =>
                  frameRet = Raise("NotImplementedError")

C5_Witness ==
    /\ frameOp = "XnetFrame.from_raw"
    /\ rawFrame.type = "LIN_DATA"
    /\ frameRet = Raise("NotImplementedError")

DecodesBusError ==
    /\ frameOp \in {"CanBusErrorFrame.from_raw", "XnetFrame.from_raw"}
    /\ rawFrame.type = "CAN_BUS_ERROR"

\* The frame C6 describes for a payload of at least 5 bytes.
BusErrorByLayout(frame) ==
    CanBusErrorFrame(frame.timestamp,
                     frame.payload[1],
                     frame.payload[2] # 0,
                     frame.payload[2],
                     frame.payload[4],
                     frame.payload[5])

\* C6 as stated: decoding a CAN_BUS_ERROR record with a payload of at least 5
\* bytes yields the CanBusErrorFrame with the record's timestamp, state =
\* byte 0, tcvr_err = (byte 1 nonzero), bus_err = byte 1, tx_err_count =
\* byte 3 and rx_err_count = byte 4.
C6_Original ==
    (DecodesBusError /\ Len(rawFrame.payload) >= 5) =>
        frameRet = Return(BusErrorByLayout(rawFrame))

\* C6, amended: the same, for a payload whose byte 0 is a value of
\* CanCommState and whose byte 1 is a value of CanLastErr; with any other
\* byte 0 or byte 1 the decode raises ValueError and returns no frame.  Byte
\* 2 has no influence either way.
C6_BusErrorLayout ==
    (DecodesBusError /\ Len(rawFrame.payload) >= 5) =>
        IF rawFrame.payload[1] \in CanCommState /\ rawFrame.payload[2] \in CanLastErr
        THEN frameRet = Return(BusErrorByLayout(rawFrame))
        ELSE frameRet = Raise("ValueError")

C6_Witness ==
    /\ frameOp = "CanBusErrorFrame.from_raw"
    /\ rawFrame.type = "CAN_BUS_ERROR"
    /\ rawFrame.payload = <<0, 1, 3, 3, 4>>
    /\ frameRet = Return(CanBusErrorFrame(rawFrame.timestamp, 0, TRUE, 1, 3, 4))

\* The exception C19 names for a bus-error payload of fewer than 5 bytes.
InsufficientPayload == "IndexError"

\* The last operation decoded the record as a delay or trigger frame.
DecodesPseudoFrame ==
    \/ frameOp \in PseudoFrameClasses
    \/ /\ frameOp = "XnetFrame.from_raw"
       /\ frame_type(rawFrame.type) \in PseudoFrameClasses

\* The class the last operation decoded for.
DecodedClass ==
    IF frameOp = "XnetFrame.from_raw" THEN frame_type(rawFrame.type) ELSE frameOp

\* DelayFrame, LogTriggerFrame and StartTriggerFrame decode a record of any
\* payload length, zero included, from its timestamp alone.
PseudoFramesNeedNoPayload ==
    DecodesPseudoFrame =>
        /\ frameRet.exc = "none"
        /\ frameRet.value.class = DecodedClass
        /\ frameRet.value =
              (CASE DecodedClass = "DelayFrame" -> DelayFrame(rawFrame.timestamp)
                 [] DecodedClass = "LogTriggerFrame" ->
                      LogTriggerFrame(rawFrame.timestamp)
                 [] DecodedClass = "StartTriggerFrame" ->
                      StartTriggerFrame(rawFrame.timestamp))

\* C19 as stated: decoding a CanBusErrorFrame from a record whose payload
\* has fewer than 5 bytes fails with InsufficientPayload and returns no
\* frame; DelayFrame, LogTriggerFrame and StartTriggerFrame decode a record
\* of every payload length.
C19_Original ==
    /\ (DecodesBusError /\ Len(rawFrame.payload) < 5) =>
          frameRet = Raise(InsufficientPayload)
    /\ PseudoFramesNeedNoPayload

\* C19, amended: decoding a CanBusErrorFrame from a record whose payload has
\* fewer than 5 bytes fails and returns no frame: with ValueError when byte
\* 0 is there and is no CanCommState value, or byte 1 is there and is no
\* CanLastErr value (the bytes are read in order), and with IndexError
\* otherwise.  DelayFrame, LogTriggerFrame and StartTriggerFrame decode a
\* record of every payload length.
C19_ShortPayloadFails ==
    /\ (DecodesBusError /\ Len(rawFrame.payload) < 5) =>
          /\ frameRet.value = None
          /\ frameRet.exc =
                (IF \/ /\ Len(rawFrame.payload) >= 1
                       /\ rawFrame.payload[1] \notin CanCommState
                    \/ /\ Len(rawFrame.payload) >= 2
                       /\ rawFrame.payload[1] \in CanCommState
                       /\ rawFrame.payload[2] \notin CanLastErr
                 THEN "ValueError"
                 ELSE InsufficientPayload)
    /\ PseudoFramesNeedNoPayload

\* Four valid bytes where five are needed.
C19_Witness ==
    /\ frameOp = "CanBusErrorFrame.from_raw"
    /\ rawFrame.type = "CAN_BUS_ERROR"
    /\ rawFrame.payload = <<1, 1, 3, 3>>
    /\ frameRet = Raise("IndexError")

\* The single value a delay or trigger frame holds.
ValueOf(frame) ==
    IF frame.class = "DelayFrame" THEN frame.offset ELSE frame.timestamp

\* The type of the raw record of a delay or trigger frame.
TypeOfClass(cls) ==
    CASE cls = "DelayFrame" -> "SPECIAL_DELAY"
      [] cls = "LogTriggerFrame" -> "SPECIAL_LOG_TRIGGER"
      [] cls = "StartTriggerFrame" -> "SPECIAL_START_TRIGGER"

\* C20: to_raw of a DelayFrame, LogTriggerFrame or StartTriggerFrame f gives
\* the raw record with the type of f's class, identifier 0, flags 0, info 0,
\* an empty payload and f's value (offset or timestamp) as its timestamp;
\* from_raw of that record, by f's class or by XnetFrame, gives a frame equal
\* to f; and the records of a LogTriggerFrame and a StartTriggerFrame with
\* the same timestamp differ in the type only.
C20_PseudoFrameRoundTrip ==
    (typedFrame # None /\ typedFrame.class \in PseudoFrameClasses
        /\ frameOp # "new") =>
        /\ frameOp \in {"to_raw", "from_raw", "XnetFrame.from_raw"}
        /\ rawFrame = RawFrame(ValueOf(typedFrame), PyZero,
                               TypeOfClass(typedFrame.class), 0, 0, <<>>)
        /\ frameOp \in {"from_raw", "XnetFrame.from_raw"} =>
              /\ frameRet.exc = "none"
              /\ frameRet.value = typedFrame
              /\ Frame_eq(frameRet.value, typedFrame)
              /\ Frame_eq(typedFrame, frameRet.value)
        /\ typedFrame.class = "LogTriggerFrame" =>
              LET start == StartTriggerFrame_to_raw(
                               StartTriggerFrame(typedFrame.timestamp)).value
              IN  /\ start.type # rawFrame.type
                  /\ [start EXCEPT !.type = rawFrame.type] = rawFrame
                  /\ ~Frame_eq(typedFrame, StartTriggerFrame(typedFrame.timestamp))

C20_Witness ==
    /\ typedFrame = LogTriggerFrame(250)
    /\ rawFrame = RawFrame(250, PyZero, "SPECIAL_LOG_TRIGGER", 0, 0, <<>>)
    /\ frameOp = "XnetFrame.from_raw"
    /\ frameRet = Return(LogTriggerFrame(250))

\* C22: for a CanBusErrorFrame f whose state and last error are values of
\* their enumerations and whose counters are bytes, from_raw(f.to_raw())
\* is a frame equal to f.
C22_BusErrorRoundTrip ==
    (/\ typedFrame # None
     /\ typedFrame.class = "CanBusErrorFrame"
     /\ typedFrame.state \in CanCommState
     /\ typedFrame.bus_err \in CanLastErr
     /\ typedFrame.tx_err_count \in 0 .. 255
     /\ typedFrame.rx_err_count \in 0 .. 255
     /\ frameOp \in {"from_raw", "XnetFrame.from_raw"}) =>
        /\ frameRet.exc = "none"
        /\ CanBusErrorFrame_eq(frameRet.value, typedFrame)

\* Whether the transmit-echo bit (0x80) is set in a flags byte.
EchoBit(flags) == (flags \div 128) % 2 = 1

\* C21: CanFrame.from_raw gives the CanFrame whose echo is true exactly when
\* the transmit-echo bit (0x80) of the record's flags is set, whose
\* timestamp, type and payload are the record's, and whose identifier is
\* CanIdentifier.from_raw of the record's identifier; a CanFrame just
\* constructed has echo false and timestamp 0 whatever its arguments.
C21_EchoOnlyFromDecode ==
    /\ (\/ frameOp = "CanFrame.from_raw"
        \/ frameOp = "XnetFrame.from_raw" /\ rawFrame.type \in CanFrameTypes) =>
          /\ frameRet.exc = "none"
          /\ frameRet.value.class = "CanFrame"
          /\ frameRet.value.echo = EchoBit(rawFrame.flags)
          /\ frameRet.value.timestamp = rawFrame.timestamp
          /\ frameRet.value.type = rawFrame.type
          /\ frameRet.value.payload = rawFrame.payload
          /\ frameRet.value.identifier = CanIdentifier_from_raw(rawFrame.identifier)
    /\ frameOp = "CanFrame" =>
          /\ frameRet.exc = "none"
          /\ frameRet.value.class = "CanFrame"
          /\ frameRet.value.echo = FALSE
          /\ frameRet.value.timestamp = 0
          /\ frameRet.value.type = rawFrame.type
          /\ frameRet.value.payload = rawFrame.payload

\* A record with every flag but the transmit echo decodes with echo false.
C21_Witness ==
    /\ frameOp = "CanFrame.from_raw"
    /\ rawFrame.flags = 127
    /\ rawFrame.timestamp = 100
    /\ rawFrame.identifier = <<\H3FFF, \HFFFF>>
    /\ frameRet.value.echo = FALSE
    /\ frameRet.value.timestamp = 100
    /\ frameRet.value.identifier = CanIdentifier(<<\H1FFF, \HFFFF>>, TRUE)

\* C7: the CAN_BUS_ERROR record with payload [1,1,3,3,4] decodes through
\* XnetFrame.from_raw to CanBusErrorFrame(timestamp, state=1, tcvr_err=True,
\* bus_err=3, tx_err_count=3, rx_err_count=4).
C7_DispatchExample ==
    ( /\ frameOp = "XnetFrame.from_raw"
      /\ rawFrame.type = "CAN_BUS_ERROR"
      /\ rawFrame.payload = <<1, 1, 3, 3, 4>> ) =>
        frameRet = Return(CanBusErrorFrame(rawFrame.timestamp, 1, TRUE, 3, 3, 4))


(***************************************************************************)
(* Claims about Collection                                                 *)
(***************************************************************************)
\* The names the collection has cached (after any operation that read them).
CachedNames == listCache.list

Occurs(name, names) == \E i \in 1 .. Len(names) : names[i] = name

\* The position (from 0) of the first occurrence of name in names.
FirstOccurrence(name, names) ==
    CHOOSE i \in 0 .. Len(names) - 1 :
        /\ names[i + 1] = name
        /\ \A j \in 0 .. i - 1 : names[j + 1] # name

\* C8: with cached name list L, collection[n] for a name n occurring in L
\* returns the item (handle, i, n), i being the position of the first
\* occurrence of n in L, and that item equals the one collection[i] returns.
C8_LookupByNameFirstMatch ==
    ( /\ collOp = "getitem"
      /\ collKey.type = "str"
      /\ Occurs(collKey.str, CachedNames) ) =>
        LET i == FirstOccurrence(collKey.str, CachedNames)
            by_index == Collection_getitem(handle, CachedNames, IntKey(i))
        IN  /\ collRet.exc = "none"
            /\ collRet.value = Item(handle, i, collKey.str)
            /\ by_index.exc = "none"
            /\ Item_eq(collRet.value, by_index.value)
            /\ Item_eq(by_index.value, collRet.value)

\* The item of a duplicated name: its first position, not the later one.
C8_Witness ==
    /\ collOp = "getitem"
    /\ listCache = List(<<"a", "b", "b">>)
    /\ collKey = StrKey("b")
    /\ collRet.exc = "none"
    /\ collRet.value = Item(handle, 1, "b")

\* C9: key in collection, with cached name list L, is true for an int key
\* exactly when 0 <= key < len(L), true for a string key exactly when the key
\* is an element of L, and raises TypeError (returning neither) for a key of
\* any other type.
C9_Contains ==
    collOp = "contains" =>
        /\ collKey.type = "int" =>
              /\ collRet.exc = "none"
              /\ collRet.value = (0 <= collKey.int /\ collKey.int < Len(CachedNames))
        /\ collKey.type = "str" =>
              /\ collRet.exc = "none"
              /\ collRet.value = Occurs(collKey.str, CachedNames)
        /\ collKey.type \notin {"int", "str"} =>
              /\ collRet.exc = "TypeError"
              /\ collRet.value = None

C9_Witness ==
    /\ collOp = "contains"
    /\ listCache = List(<<"a", "b", "c">>)
    /\ collKey = IntKey(3)
    /\ collRet.exc = "none"
    /\ collRet.value = FALSE

\* C10: collection[key] returns no item for an unresolvable key: KeyError
\* for a string that is not in the cached name list, IndexError for an int k
\* with k < 0 or k >= len(cache) (one for which k in collection is false).
C10_UnresolvableKeyFails ==
    collOp = "getitem" =>
        /\ (collKey.type = "str" /\ ~Occurs(collKey.str, CachedNames)) =>
              collRet.exc = "KeyError"
        /\ (collKey.type = "int"
              /\ (collKey.int < 0 \/ collKey.int >= Len(CachedNames))) =>
              collRet.exc = "IndexError"

\* C11: collection.get(key, default), with cached name list L, returns the
\* item collection[key] returns whenever collection[key] succeeds; returns
\* default, raising nothing, for a string that is not in L and for an int
\* key for which key in collection is false (key < 0 or key >= len(L)); and
\* raises TypeError for a key that is neither an int nor a string.
C11_GetWithDefault ==
    collOp = "get" =>
        LET lookup == Collection_getitem(handle, CachedNames, collKey)
        IN  /\ lookup.exc = "none" => collRet = lookup
            /\ (collKey.type = "str" /\ ~Occurs(collKey.str, CachedNames)) =>
                  collRet = Return(collDefault)
            /\ (collKey.type = "int"
                  /\ (collKey.int < 0 \/ collKey.int >= Len(CachedNames))) =>
                  collRet = Return(collDefault)
            /\ collKey.type \notin {"int", "str"} =>
                  collRet = Raise("TypeError")

\* The cache of a collection object and the driver calls that filled it
\* agree: no call and no cache, or one call whose result is the cache.
FetchedOnce(coll) ==
    /\ Len(coll.calls) <= 1
    /\ (coll.cache = None) = (coll.calls = <<>>)
    /\ coll.cache # None => coll.cache = List(coll.calls[1])

\* The last operation is one that reads self._list_cache.
NeedsNames ==
    \/ collOp \in {"contains", "getitem", "get"} /\ ReadsCache(collKey)
    \/ collOp = "next"
    \/ /\ collOp \in {"eq", "ne"}
       /\ Collection_eq_reads(Operands(collKey.left)[1], Operands(collKey.left)[2])

C13_IterationAsserts ==
    /\ \A k \in 1 .. Len(iters) :
          (iters[k].state # "created"
              /\ iters[k].item_count # Len(CachedNames)) =>
              /\ iters[k].state = "finished"
              /\ iters[k].exc = "AssertionError"
              /\ iters[k].yielded = <<>>
    /\ (collOp = "next" /\ collRet.exc = "AssertionError") =>
          /\ iters[collKey.iter].yielded = <<>>
          /\ iters[collKey.iter].item_count # Len(CachedNames)

\* A generator started before the driver's list changed has yielded; one
\* started afterwards failed on its first advance.
C13_Witness ==
    /\ Len(iters) = 2
    /\ iters[1].yielded # <<>>
    /\ iters[2].exc = "AssertionError"
    /\ iters[2].item_count # Len(CachedNames)
    /\ collOp = "next" /\ collRet = Raise("AssertionError")

\* The items of a collection with cached names: (handle, i, names[i]).
ItemsOf(item_handle, names) ==
    [i \in 1 .. Len(names) |-> Item(item_handle, i - 1, names[i])]

\* C14: a generator whose first advance found the live count equal to the
\* length of the cached list yields the items (handle, i, cache[i]) for i =
\* 0, 1, ... in cache order, and ends after exactly len(cache) of them;
\* every generator does so from position 0, however far the other generators
\* of the collection have been advanced.
C14_IterationYields ==
    \A k \in 1 .. Len(iters) :
        /\ iters[k].state = "created" =>
              iters[k].pos = 0 /\ iters[k].yielded = <<>>
        /\ (iters[k].state # "created"
              /\ iters[k].item_count = Len(CachedNames)) =>
              /\ iters[k].pos <= Len(CachedNames)
              /\ iters[k].yielded = SubSeq(ItemsOf(handle, CachedNames), 1,
                                           iters[k].pos)
              /\ iters[k].state = "running" => iters[k].pos > 0
              /\ iters[k].state = "finished" =>
                    /\ iters[k].exc = "StopIteration"
                    /\ iters[k].yielded = ItemsOf(handle, CachedNames)

\* One generator has yielded both items and ended; a later one, advanced
\* once, yielded the first item again.
C14_Witness ==
    /\ Len(iters) = 2
    /\ listCache = List(<<"a", "b">>)
    /\ iters[1].state = "finished"
    /\ iters[1].yielded = <<Item(handle, 0, "a"), Item(handle, 1, "b")>>
    /\ iters[2].state = "running"
    /\ iters[2].yielded = <<Item(handle, 0, "a")>>
    /\ collOp = "next" /\ collKey.iter = 2
    /\ collRet = Return(Item(handle, 0, "a"))

\* The two collections hold the same handle and cached name lists that are
\* equal element by element.
SameHandleAndNames ==
    /\ handle = otherColl.handle
    /\ listCache # None /\ otherColl.cache # None
    /\ listCache.list = otherColl.cache.list

C1_RawRoundTrip ==
    codecOp = "read_raw" =>
        /\ rxBytes = Wire => readFrames = written
        /\ Len(readFrames) <= Len(written)
        /\ readFrames = SubSeq(written, 1, Len(readFrames))

C1_Witness ==
    /\ codecOp = "read_raw"
    /\ Len(written) = 3
    /\ written[1].payload = CodecPayload(9, 1)
    /\ written[2].identifier = <<\HFFFF, \HFFFF>>
    /\ written[3].type = "CAN_BUS_ERROR"
    /\ rxBytes = Wire
    /\ Len(rxBytes) = 80
    /\ readFrames = written

\* encode_one of each frame in turn, one after the other.
RECURSIVE EncodeAll(_)
EncodeAll(frames) ==
    IF frames = <<>> THEN <<>>
    ELSE serialize_frame(Head(frames)).value \o EncodeAll(Tail(frames))

\* C16: write_raw of a sequence of raw frames calls the driver's write
\* exactly once, with the byte string that is encode_one of the first frame,
\* then of the second, and so on in input order: every frame once, none
\* moved, dropped or repeated.
C16_WriteRawOneCall ==
    codecOp \in {"write_raw", "read_raw"} =>
        /\ Len(txCalls) = 1
        /\ txCalls[1] = EncodeAll(written)

C16_Witness ==
    /\ codecOp = "write_raw"
    /\ Len(written) = 3
    /\ written[1].type = "SPECIAL_DELAY"
    /\ written[2].payload = CodecPayload(9, 1)
    /\ written[3].payload = <<>>
    /\ Len(txCalls) = 1
    /\ Len(txCalls[1]) = 80
    /\ SubSeq(txCalls[1], 1, 24) = serialize_frame(written[1]).value

\* C17: read_can turns each raw record read from the driver, in the order of
\* the buffer, into the typed frame its type selects: a CAN_BUS_ERROR record
\* into a CanBusErrorFrame, a SPECIAL_DELAY record into a DelayFrame, and so
\* on by the dispatch table.
C17_TypedReadByTypeTag ==
    codecOp = "read_can" =>
        /\ Len(readTyped) = Len(readFrames)
        /\ \A i \in 1 .. Len(readTyped) :
              /\ readTyped[i].exc = "none"
              /\ readTyped[i].value.class = frame_type(readFrames[i].type)
              /\ readTyped[i].value.timestamp = readFrames[i].timestamp

\* The error that converting a typed frame to a raw frame fails with, or
\* "none": an identifier beyond its width, a counter that is no byte.
ConversionError(frame) ==
    CASE frame.class = "CanFrame" /\ ~FitsWidth(frame.identifier) ->
            "NX_ERR_UNDEFINED_FRAME_ID"
      [] frame.class = "CanBusErrorFrame"
            /\ (frame.tx_err_count \notin 0 .. 255 \/ frame.rx_err_count \notin 0 .. 255) ->
            "ValueError"
      [] OTHER -> "none"

\* The frames of a sequence that do not convert.
Unconvertible(frames) ==
    { i \in 1 .. Len(frames) : ConversionError(frames[i]) # "none" }

\* C23: when write_can is given a sequence in which some frame does not
\* convert to a raw frame, the caller gets the error of the first such frame
\* and write_bytes is not called at all: nothing of the frames before the
\* failing one reaches the driver.
C23_WriteCanAllOrNothing ==
    (codecOp \notin {"idle", "write_raw", "read_raw", "read_can"}
        /\ Unconvertible(written) # {}) =>
        /\ \E i \in Unconvertible(written) :
              /\ \A j \in Unconvertible(written) : i <= j
              /\ codecOp = ConversionError(written[i])
        /\ txCalls = <<>>

\* Two frames that convert, then one whose identifier is beyond 29 bits.
C23_Witness ==
    /\ codecOp = "NX_ERR_UNDEFINED_FRAME_ID"
    /\ Len(written) = 3
    /\ Unconvertible(written) = {3}
    /\ written[1].echo /\ written[1].identifier.extended
    /\ written[2].identifier = CanIdentifier(<<0, 1>>, FALSE)
    /\ written[3].identifier = CanIdentifier(<<\H2000, 0>>, TRUE)
    /\ txCalls = <<>>

=============================================================================
